---- MODULE Spec2Model ----
(***************************************************************************)
(* A model of run.py: the SolarmanPV -> MQTT bridge.                       *)
(*                                                                         *)
(* The process is one sequential program; pc is its position.  The remote  *)
(* API (what the station, inverter and logger endpoints serve, and the     *)
(* lifetime the account endpoint grants) and the command line are chosen   *)
(* in Init and stay fixed in a run; transport failures, the configuration  *)
(* file's content and the sun's position are chosen at each step.          *)
(***************************************************************************)
EXTENDS Integers, Sequences, FiniteSets, TLC

(***************************************************************************)
(* Bounds of the model.                                                    *)
(***************************************************************************)
MaxTicks == 3
MaxTriples == 2

(***************************************************************************)
(* Program constants.                                                      *)
(***************************************************************************)
SafetyBuffer == 300
DefaultExpiresIn == 5183999
DefaultMargin == 30
DefaultInterval == 300

(***************************************************************************)
(* Python and JSON values.  A JSON value is tagged by its type, so that    *)
(* null, numbers, lists and serialized objects are never equal.            *)
(***************************************************************************)
None == "None"
JNull == [null |-> TRUE]
JNum(n) == [num |-> n]
JList(s) == [list |-> s]
EmptyDict == <<>>

\* an int()-convertible text or number, or one int() raises on
IntLike(n) == [ok |-> TRUE, n |-> n]
NotIntLike == [ok |-> FALSE, n |-> 0]

\* the empty string taken for a token
truthy_not_none(tok) == tok # None

\* bool(x) of a token: neither None nor the empty string
truthy(tok) == tok # None /\ tok # ""

\* dict.get(key, default)
Get(d, key, default) == IF key \in DOMAIN d THEN d[key] ELSE default

Modules == {"station", "inverter", "logger"}
ToggleKeys == {"fetch_station", "fetch_inverter", "fetch_logger"}
discard == {"code", "msg", "requestId", "success", "dataList"}


\* the text left as it is
str_replace_none(s, old, new) == s

\* str.replace(old, new) on a text held as a sequence of characters
str_replace(s, old, new) == [i \in 1..Len(s) |-> IF s[i] = old THEN new ELSE s[i]]

\* int(x): the number of an int()-convertible value
py_int(x) == x.n

\* timedelta(minutes=m), in seconds
timedelta_minutes(m) == m * 60

\* bool(x) of a decoded JSON value
json_truthy(v) ==
    CASE "null" \in DOMAIN v -> FALSE
      [] "num" \in DOMAIN v -> v.num # 0
      [] "list" \in DOMAIN v -> v.list # <<>>
      [] OTHER -> TRUE

Restrict(f, S) == [k \in S |-> f[k]]

(***************************************************************************)
(* The remote API: what the three telemetry endpoints serve.               *)
(***************************************************************************)
Triple == [key |-> 1, name |-> <<"T", " ", "E">>, value |-> JNum(12)]
\* a malformed dataList entry: no "key"
BadTriple == [name |-> <<"T">>, value |-> JNum(12)]

FieldValues(k) ==
    CASE k = "code" -> {JNum(0)}
      [] k = "generationPower" -> {JNull, JNum(5)}
      [] k = "collectionTime" -> {JNull}
      [] k = "deviceState" -> {JNum(1), JNum(3)}
      [] k = "dataList" -> {JList(<<>>), JList(<<Triple>>)}

AllFieldValues ==
    UNION {FieldValues(k) :
           k \in {"code", "generationPower", "collectionTime", "deviceState", "dataList"}}

\* every response whose fields are among keys
ResponsesOver(keys) ==
    UNION {{r \in [S -> AllFieldValues] : \A k \in S : r[k] \in FieldValues(k)} :
           S \in SUBSET keys}

StationResponses == ResponsesOver({"code", "generationPower"})
DeviceResponses == ResponsesOver({"deviceState", "collectionTime", "dataList"})
LoggerResponses == ResponsesOver({"deviceState", "dataList"})

OnlineResponse == [deviceState |-> JNum(1), dataList |-> JList(<<Triple>>)]
OfflineResponse == [deviceState |-> JNum(3), collectionTime |-> JNull]
MalformedResponse == [deviceState |-> JNum(1), dataList |-> JList(<<Triple, BadTriple>>)]

\* expires_in of the account endpoint: <<>> when the response carries none;
\* blank_token: the endpoint may answer with an empty or null access_token
ExpiresIn == {<<>>, <<400>>, <<600>>, <<900>>}

\* remote APIs with varied telemetry and the default token lifetime
ApiTelemetry ==
    [station : StationResponses, inverter : DeviceResponses, logger : LoggerResponses,
     expires_in : {<<>>}, blank_token : {FALSE}]

\* remote APIs with varied token lifetimes and a few telemetry responses
ApiAccount ==
    [station : {[generationPower |-> JNum(5)]},
     inverter : {OnlineResponse, OfflineResponse, MalformedResponse},
     logger : {OnlineResponse}, expires_in : ExpiresIn, blank_token : {TRUE}]

(***************************************************************************)
(* The command line (argparse's namespace).                                *)
(***************************************************************************)
ArgsOver(intervals) ==
    {[single |-> TRUE, daemon |-> FALSE, interval |-> IntLike(DefaultInterval)]}
    \cup [single : {FALSE}, daemon : BOOLEAN, interval : intervals]

Environments ==
    (ApiTelemetry \X ArgsOver({IntLike(DefaultInterval)}))
    \cup (ApiAccount \X ArgsOver({IntLike(DefaultInterval), IntLike(600), NotIntLike}))

(***************************************************************************)
(* The configuration file: the toggles are all present or all missing; the *)
(* file may be edited between ticks to name another account, which is      *)
(* modelled for the file without toggles.                                  *)
(***************************************************************************)
Usernames == {"a", "b"}

Configs ==
    {c @@ [topic |-> "pv", username |-> "a"] : c \in [ToggleKeys -> BOOLEAN]}
    \cup {[topic |-> "pv", username |-> u] : u \in Usernames}

(***************************************************************************)
(* get_token: the cache test of line 45.                                   *)
(***************************************************************************)
\* the buffer taken for minutes
cache_valid_minutes(tok, expiry, current_time) ==
    truthy(tok) /\ current_time < expiry - SafetyBuffer * 60

\* the buffer's edge counted as valid
cache_valid_inclusive(tok, expiry, current_time) ==
    truthy(tok) /\ current_time <= expiry - SafetyBuffer

cache_valid(tok, expiry, current_time) ==
    truthy(tok) /\ current_time < expiry - SafetyBuffer

\* what the account endpoint may answer to the n-th token it is asked for:
\* no answer (transport or decode error), a JSON object without
\* access_token, or one with it (a fresh token, or an empty or null one if
\* the API hands such out), with the API's expires_in or one int() cannot
\* convert
AuthReplies(expires, blank, n) ==
    {[kind |-> "error", data |-> EmptyDict]}
    \cup {[kind |-> "json", data |-> d] : d \in {EmptyDict, [msg |-> "auth invalid"]}}
    \cup {[kind |-> "json", data |-> ("access_token" :> t) @@ e] :
          t \in {"tok" \o ToString(n)} \cup (IF blank THEN {"", None} ELSE {}),
          e \in {IF expires = <<>> THEN EmptyDict
                 ELSE ("expires_in" :> IntLike(expires[1])),
                 ("expires_in" :> NotIntLike)}}

\* line 66
has_access_token(reply) ==
    reply.kind = "json" /\ "access_token" \in DOMAIN reply.data

\* int() answering 0 for what it cannot convert
expires_convertible_always(reply) == TRUE

\* lines 70-71: int(expires_in) does not raise
expires_convertible(reply) ==
    Get(reply.data, "expires_in", IntLike(DefaultExpiresIn)).ok

\* lines 70-71
new_token_expiry(data, current_time) ==
    current_time + py_int(Get(data, "expires_in", IntLike(DefaultExpiresIn)))

(***************************************************************************)
(* restruct_and_separate_current_data                                      *)
(***************************************************************************)
RECURSIVE restruct_loop(_, _)
restruct_loop(data_list, new_data_list) ==
    IF data_list = <<>> THEN new_data_list
    ELSE LET i == Head(data_list)
             name == str_replace(i.name, " ", "_")
         IN restruct_loop(Tail(data_list), (name :> i.value) @@ new_data_list)

\* del i["key"], i["name"], i["value"] find their keys in every entry
entries_well_formed(data_list) ==
    \A n \in 1..Len(data_list) : {"key", "name", "value"} \subseteq DOMAIN data_list[n]

\* raised: a KeyError or TypeError leaves the function; ret: the value
\* returned; data: the argument after the call (dataList deleted)
restruct_and_separate_current_data(data) ==
    IF "dataList" \in DOMAIN data /\ json_truthy(data["dataList"])
    THEN IF "list" \in DOMAIN data["dataList"]
            /\ entries_well_formed(data["dataList"].list)
         THEN [raised |-> FALSE,
               ret |-> restruct_loop(data["dataList"].list, EmptyDict),
               data |-> Restrict(data, DOMAIN data \ {"dataList"})]
         ELSE [raised |-> TRUE, ret |-> EmptyDict, data |-> data]
    ELSE [raised |-> FALSE, ret |-> EmptyDict, data |-> data]

(***************************************************************************)
(* single_run: what is handed to mqtt.message                              *)
(***************************************************************************)
Message(topic, module, field, payload) ==
    [topic |-> <<topic, module, field>>, payload |-> payload]

\* the order in which a response's fields are iterated
KeyOrder ==
    <<"code", "msg", "requestId", "success", "generationPower", "deviceState",
      "collectionTime", "dataList">>

\* the discard list forgotten
publishable_any_key(k, v) == v # JNull

\* lines 175, 180, 187
publishable(k, v) == v # JNull /\ k \notin discard

\* the loops of lines 174-176, 179-181 and 186-188
field_messages(topic, module, raw) ==
    LET keys == SelectSeq(KeyOrder,
                          LAMBDA k : k \in DOMAIN raw /\ publishable(k, raw[k]))
    IN [n \in 1..Len(keys) |-> Message(topic, module, keys[n], raw[keys[n]])]

\* the attribute map published even when it is empty
attr_messages_always(topic, module, attr) ==
    <<Message(topic, module, "attributes", [json |-> attr])>>

\* lines 182-183 and 189-190: json.dumps of a non-empty attribute map
attr_messages(topic, module, attr) ==
    IF DOMAIN attr # {}
    THEN <<Message(topic, module, "attributes", [json |-> attr])>>
    ELSE <<>>

\* the inverter's state published whether or not the module is enabled
offline_messages_unguarded(topic, fetch_inverter, inverter_state) ==
    <<Message(topic, "inverter", "deviceState", inverter_state)>>

\* line 192
offline_messages(topic, fetch_inverter, inverter_state) ==
    IF fetch_inverter
    THEN <<Message(topic, "inverter", "deviceState", inverter_state)>>
    ELSE <<>>

(***************************************************************************)
(* is_sun_active: cfg holds the keys the gate reads; the clock and the     *)
(* sun's times are in seconds of local time.                               *)
(***************************************************************************)
\* the window's start left out
is_sun_active_exclusive(cfg, now_local, sunrise_local, sunset_local) ==
    LET latitude == Get(cfg, "latitude", 0)
        longitude == Get(cfg, "longitude", 0)
    IN IF latitude = 0 /\ longitude = 0 THEN TRUE
       ELSE LET margin == timedelta_minutes(Get(cfg, "sunmarginminutes", DefaultMargin))
                start_window == sunrise_local - margin
                end_window == sunset_local + margin
            IN start_window < now_local /\ now_local <= end_window

is_sun_active(cfg, now_local, sunrise_local, sunset_local) ==
    LET latitude == Get(cfg, "latitude", 0)
        longitude == Get(cfg, "longitude", 0)
    IN IF latitude = 0 /\ longitude = 0 THEN TRUE
       ELSE LET margin == timedelta_minutes(Get(cfg, "sunmarginminutes", DefaultMargin))
                start_window == sunrise_local - margin
                end_window == sunset_local + margin
            IN start_window <= now_local /\ now_local <= end_window

GateConfigs ==
    UNION {{c \in [S -> {0, 10, 52}] :
              /\ \A k \in S \cap {"latitude", "longitude"} : c[k] \in {0, 52}
              /\ "sunmarginminutes" \in S => c["sunmarginminutes"] \in {0, 10}} :
           S \in SUBSET {"latitude", "longitude", "sunmarginminutes"}}

Sunrises == {21600}
Sunsets == {64800}

\* instants at, just before and just after every window edge
Instants ==
    {s + timedelta_minutes(m) + d :
       s \in Sunrises \cup Sunsets, m \in {-DefaultMargin, -10, 0, 10, DefaultMargin},
       d \in {-1, 0, 1}}

GateInputs ==
    [cfg : GateConfigs, now_local : Instants, sunrise_local : Sunrises,
     sunset_local : Sunsets]

\* the inputs a daemon tick draws: an installation with and without
\* coordinates, at sunrise and just before the window opens
TickGateInputs ==
    {g \in GateInputs :
       /\ g.cfg \in {EmptyDict, [latitude |-> 52, longitude |-> 52]}
       /\ g.now_local \in UNION {{s, s - timedelta_minutes(DefaultMargin) - 1} :
                                  s \in Sunrises}}

(***************************************************************************)
(* State.                                                                  *)
(***************************************************************************)
VARIABLES
    pc,             \* the program's position
    exit_code,      \* the process's exit status once pc = "exited", else -1
    cached_token,   \* module global, line 34
    token_expiry,   \* module global, line 35
    now,            \* time.time()
    api,            \* the remote API
    issued,         \* tokens the account endpoint has been asked for
    args,           \* the parsed command line
    interval,       \* daemon: int(interval)
    config,         \* daemon: the configuration loaded in this tick
    sun_active,     \* daemon: the gate's answer in this tick
    token,          \* single_run: the token get_token returned
    station_data,   \* single_run
    inverter_raw,   \* single_run
    logger_raw,     \* single_run
    inverter_attr,  \* single_run
    logger_attr,    \* single_run
    inverter_state, \* single_run
    ticks,          \* ticks started
    sleeps,         \* time.sleep calls that returned
    auth_requests,  \* token requests issued in this tick
    auth_reply,     \* the answer to the last token request
    fetches,        \* telemetry requests issued in this tick, with their token
    published,      \* mqtt.message calls that returned in this tick
    token_src,      \* get_token's debug line: "cache" or "auth"
    token_account,  \* the username whose request cached_token came from
    branch,         \* single_run's status line
    error,          \* the error line logged, "none" if none
    tick0,          \* the credential when this tick started
    gate            \* the gate's inputs when it is called on its own

progv == <<pc, exit_code>>
globalv == <<cached_token, token_expiry>>
envv == <<now, api, args>>
daemonv == <<interval, config, sun_active>>
runv == <<token, station_data, inverter_raw, logger_raw, inverter_attr, logger_attr,
          inverter_state>>
authv == <<issued, auth_requests, auth_reply, token_src, token_account>>
histv == <<ticks, sleeps, fetches, published, branch, tick0>>
vars == <<progv, globalv, envv, daemonv, runv, authv, histv, error, gate>>

NoGate == [cfg |-> EmptyDict, now_local |-> 0, sunrise_local |-> 0, sunset_local |-> 0]
NoReply == [kind |-> "none", data |-> EmptyDict]

\* single_run's locals before it runs
FreshLocals ==
    /\ token = None
    /\ station_data = EmptyDict
    /\ inverter_raw = EmptyDict
    /\ logger_raw = EmptyDict
    /\ inverter_attr = EmptyDict
    /\ logger_attr = EmptyDict
    /\ inverter_state = JNum(0)

Init ==
    /\ pc = "main"
    /\ exit_code = -1
    /\ cached_token = None
    /\ token_expiry = 0
    /\ now = 0
    /\ \E e \in Environments : api = e[1] /\ args = e[2]
    /\ issued = 0
    /\ interval = 0
    /\ config = EmptyDict
    /\ sun_active = FALSE
    /\ FreshLocals
    /\ ticks = 0
    /\ sleeps = 0
    /\ auth_requests = 0
    /\ auth_reply = NoReply
    /\ fetches = <<>>
    /\ published = <<>>
    /\ token_src = "none"
    /\ token_account = None
    /\ branch = "none"
    /\ error = "none"
    /\ tick0 = [cached_token |-> None, token_expiry |-> 0]
    /\ gate = NoGate

(***************************************************************************)
(* Leaving the process.                                                    *)
(***************************************************************************)
\* sys.exit(code), or an exception nothing catches (status 1)
sys_exit(code) ==
    /\ pc' = "exited"
    /\ exit_code' = code
    /\ interval' = 0
    /\ sun_active' = FALSE
    /\ UNCHANGED config

\* the error logged and the loop going on
daemon_except_continue(what) ==
    /\ error' = what
    /\ pc' = "sleep"
    /\ UNCHANGED <<exit_code, interval, config, sun_active>>

\* daemon's handler, lines 239-241
daemon_except(what) ==
    /\ error' = what
    /\ sys_exit(1)

\* the failure answered with None instead of ending the process
get_token_except_returns ==
    /\ error' = "Unable to fetch token"
    /\ pc' = "run"
    /\ UNCHANGED <<exit_code, interval, config, sun_active>>

\* get_token's handler, lines 75-77: SystemExit is no Exception, so
\* daemon's handler lets it through
get_token_except ==
    /\ error' = "Unable to fetch token"
    /\ sys_exit(1)

(***************************************************************************)
(* main                                                                    *)
(***************************************************************************)
\* line 266: single_run is handed the file's name, and config["url"] on a
\* str raises TypeError before get_token is called; nothing catches it
MainSingle ==
    /\ pc = "main"
    /\ args.single
    /\ error' = "TypeError"
    /\ sys_exit(1)
    /\ UNCHANGED <<globalv, envv, runv, authv, histv, gate>>

\* lines 267-268 and 230-231
MainDaemon ==
    /\ pc = "main"
    /\ ~args.single /\ args.daemon
    /\ IF args.interval.ok
       THEN /\ interval' = py_int(args.interval)
            /\ pc' = "load"
            /\ UNCHANGED <<exit_code, error, config, sun_active>>
       ELSE /\ error' = "ValueError"
            /\ sys_exit(1)
    /\ UNCHANGED <<globalv, envv, runv, authv, histv, gate>>

\* line 270: print_help, then the interpreter ends normally
MainHelp ==
    /\ pc = "main"
    /\ ~args.single /\ ~args.daemon
    /\ sys_exit(0)
    /\ UNCHANGED <<globalv, envv, runv, authv, histv, error, gate>>

(***************************************************************************)
(* daemon: one tick is load, gate, single_run if the gate is active, sleep *)
(***************************************************************************)
\* line 234
TickLoad ==
    /\ pc = "load"
    /\ ticks < MaxTicks
    /\ ticks' = ticks + 1
    /\ \E c \in Configs : config' = c
    /\ pc' = "gate"
    /\ UNCHANGED <<exit_code, globalv, envv, interval, sun_active, runv, authv,
                   sleeps, fetches, published, branch, tick0, error, gate>>

\* line 234: the file is unreadable or no JSON
TickLoadError ==
    /\ pc = "load"
    /\ ticks < MaxTicks
    /\ ticks' = ticks + 1
    /\ daemon_except("load_config")
    /\ UNCHANGED <<globalv, envv, runv, authv,
                   sleeps, fetches, published, branch, tick0, gate>>

\* the gate's answer ignored
gate_branch_always(active) == "get_token"

\* lines 236-238: where the tick goes on after the gate
gate_branch(active) == IF active THEN "get_token" ELSE "sleep"

\* lines 235-237
TickGate ==
    /\ pc = "gate"
    /\ \E g \in TickGateInputs :
         sun_active' = is_sun_active(g.cfg, g.now_local, g.sunrise_local, g.sunset_local)
    /\ pc' = gate_branch(sun_active')
    /\ UNCHANGED <<exit_code, globalv, envv, interval, config, runv, authv, histv,
                   error, gate>>

\* line 235: the sun's times cannot be computed
TickGateError ==
    /\ pc = "gate"
    /\ daemon_except("is_sun_active")
    /\ UNCHANGED <<globalv, envv, runv, authv, histv, gate>>

\* a sleep that never returns
SleepForever ==
    /\ pc = "sleep"
    /\ UNCHANGED vars

\* line 238: the tick's end; what the tick logged and counted is dropped,
\* and so are config and sun_active, which the next tick rebinds before it
\* reads them
Sleep ==
    /\ pc = "sleep"
    /\ now' = now + interval
    /\ sleeps' = sleeps + 1
    /\ pc' = "load"
    /\ auth_requests' = 0
    /\ token_src' = "none"
    /\ fetches' = <<>>
    /\ published' = <<>>
    /\ branch' = "none"
    /\ auth_reply' = NoReply
    /\ tick0' = [cached_token |-> cached_token, token_expiry |-> token_expiry]
    /\ config' = EmptyDict
    /\ sun_active' = FALSE
    /\ UNCHANGED <<exit_code, globalv, api, args, interval, runv, issued,
                   token_account, ticks, error, gate>>

(***************************************************************************)
(* get_token                                                               *)
(***************************************************************************)
\* lines 44-47
GetTokenCached ==
    /\ pc = "get_token"
    /\ cache_valid(cached_token, token_expiry, now)
    /\ token' = cached_token
    /\ token_src' = "cache"
    /\ pc' = "run"
    /\ UNCHANGED <<exit_code, globalv, envv, daemonv, station_data, inverter_raw,
                   logger_raw, inverter_attr, logger_attr, inverter_state, issued,
                   auth_requests, auth_reply, token_account, histv, error, gate>>

\* lines 61-63: one request to the account endpoint and its answer
token_request(reply) ==
    /\ reply \in AuthReplies(api.expires_in, api.blank_token, issued + 1)
    /\ issued' = issued + 1
    /\ auth_requests' = auth_requests + 1
    /\ auth_reply' = reply

\* a request issued whenever the configured account is not the cached
\* token's
GetTokenNewKeyed ==
    /\ pc = "get_token"
    /\ \/ ~cache_valid(cached_token, token_expiry, now)
       \/ config["username"] # token_account
    /\ \E reply \in AuthReplies(api.expires_in, api.blank_token, issued + 1) :
         /\ has_access_token(reply) /\ expires_convertible(reply)
         /\ token_request(reply)
         /\ cached_token' = reply.data["access_token"]
         /\ token_expiry' = new_token_expiry(reply.data, now)
    /\ token_account' = config["username"]
    /\ token' = cached_token'
    /\ token_src' = "auth"
    /\ pc' = "run"
    /\ UNCHANGED <<exit_code, envv, daemonv, station_data, inverter_raw, logger_raw,
                   inverter_attr, logger_attr, inverter_state, histv, error, gate>>

\* lines 49-72
GetTokenNew ==
    /\ pc = "get_token"
    /\ ~cache_valid(cached_token, token_expiry, now)
    /\ \E reply \in AuthReplies(api.expires_in, api.blank_token, issued + 1) :
         /\ has_access_token(reply) /\ expires_convertible(reply)
         /\ token_request(reply)
         /\ cached_token' = reply.data["access_token"]
         /\ token_expiry' = new_token_expiry(reply.data, now)
    /\ token_account' = config["username"]
    /\ token' = cached_token'
    /\ token_src' = "auth"
    /\ pc' = "run"
    /\ UNCHANGED <<exit_code, envv, daemonv, station_data, inverter_raw, logger_raw,
                   inverter_attr, logger_attr, inverter_state, histv, error, gate>>

\* lines 49-77: the request fails, the answer has no access_token, or its
\* expires_in is not a number (cached_token is then already assigned)
GetTokenFail ==
    /\ pc = "get_token"
    /\ ~cache_valid(cached_token, token_expiry, now)
    /\ \E reply \in AuthReplies(api.expires_in, api.blank_token, issued + 1) :
         /\ ~(has_access_token(reply) /\ expires_convertible(reply))
         /\ token_request(reply)
         /\ cached_token' = IF has_access_token(reply)
                            THEN reply.data["access_token"] ELSE cached_token
         /\ token_account' = IF has_access_token(reply)
                             THEN config["username"] ELSE token_account
    /\ get_token_except
    /\ UNCHANGED <<token_expiry, envv, runv, token_src, histv, gate>>

(***************************************************************************)
(* single_run, from the return of get_token on                             *)
(***************************************************************************)
\* lines 149-151
fetch_station == Get(config, "fetch_station", TRUE)
fetch_inverter == Get(config, "fetch_inverter", TRUE)
\* a missing toggle taken for false
fetch_logger_default_off == Get(config, "fetch_logger", FALSE)

fetch_logger == Get(config, "fetch_logger", TRUE)

\* line 153
any_fetch == fetch_station \/ fetch_inverter \/ fetch_logger

\* single_run's locals when it has returned or the process has ended
locals_gone ==
    /\ token' = None
    /\ station_data' = EmptyDict
    /\ inverter_raw' = EmptyDict
    /\ logger_raw' = EmptyDict
    /\ inverter_attr' = EmptyDict
    /\ logger_attr' = EmptyDict
    /\ inverter_state' = JNum(0)

\* single_run returns to daemon
run_returns ==
    /\ pc' = "sleep"
    /\ locals_gone

\* the error logged inside single_run, which returns as if the cycle were
\* skipped
run_raises_skips(what) ==
    /\ error' = what
    /\ pc' = "sleep"
    /\ locals_gone
    /\ UNCHANGED <<exit_code, interval, config, sun_active>>

\* the process ends inside single_run
run_raises(what) ==
    /\ daemon_except(what)
    /\ locals_gone

\* lines 145-147
RunNoToken ==
    /\ pc = "run"
    /\ ~truthy(token)
    /\ branch' = "No valid token"
    /\ run_returns
    /\ UNCHANGED <<exit_code, globalv, envv, daemonv, authv, ticks, sleeps, fetches,
                   published, tick0, error, gate>>

\* lines 153-155
RunNothing ==
    /\ pc = "run"
    /\ truthy(token)
    /\ ~any_fetch
    /\ branch' = "Nothing to fetch"
    /\ run_returns
    /\ UNCHANGED <<exit_code, globalv, envv, daemonv, authv, ticks, sleeps, fetches,
                   published, tick0, error, gate>>

\* lines 84-93 and 102-111: one authenticated request
telemetry_request(module) ==
    fetches' = Append(fetches, [module |-> module, token |-> token])

\* line 157
FetchStation ==
    /\ pc = "run"
    /\ truthy(token)
    /\ any_fetch
    /\ IF fetch_station
       THEN telemetry_request("station") /\ station_data' = api.station
       ELSE UNCHANGED fetches /\ station_data' = EmptyDict
    /\ pc' = "fetch_inverter"
    /\ UNCHANGED <<exit_code, globalv, envv, daemonv, token, inverter_raw, logger_raw,
                   inverter_attr, logger_attr, inverter_state, authv, ticks, sleeps,
                   published, branch, tick0, error, gate>>

\* line 157: the request or the decoding of its answer raises
FetchStationFail ==
    /\ pc = "run"
    /\ truthy(token)
    /\ any_fetch
    /\ fetch_station
    /\ telemetry_request("station")
    /\ run_raises("get_station_realtime")
    /\ UNCHANGED <<globalv, envv, authv, ticks, sleeps, published, branch,
                   tick0, gate>>

\* line 158
FetchInverter ==
    /\ pc = "fetch_inverter"
    /\ IF fetch_inverter
       THEN telemetry_request("inverter") /\ inverter_raw' = api.inverter
       ELSE UNCHANGED fetches /\ inverter_raw' = EmptyDict
    /\ pc' = "fetch_logger"
    /\ UNCHANGED <<exit_code, globalv, envv, daemonv, token, station_data, logger_raw,
                   inverter_attr, logger_attr, inverter_state, authv, ticks, sleeps,
                   published, branch, tick0, error, gate>>

FetchInverterFail ==
    /\ pc = "fetch_inverter"
    /\ fetch_inverter
    /\ telemetry_request("inverter")
    /\ run_raises("get_device_current_data")
    /\ UNCHANGED <<globalv, envv, authv, ticks, sleeps, published, branch,
                   tick0, gate>>

\* line 159
FetchLogger ==
    /\ pc = "fetch_logger"
    /\ IF fetch_logger
       THEN telemetry_request("logger") /\ logger_raw' = api.logger
       ELSE UNCHANGED fetches /\ logger_raw' = EmptyDict
    /\ pc' = "transform"
    /\ UNCHANGED <<exit_code, globalv, envv, daemonv, token, station_data,
                   inverter_raw, inverter_attr, logger_attr, inverter_state, authv,
                   ticks, sleeps, published, branch, tick0, error, gate>>

FetchLoggerFail ==
    /\ pc = "fetch_logger"
    /\ fetch_logger
    /\ telemetry_request("logger")
    /\ run_raises("get_device_current_data")
    /\ UNCHANGED <<globalv, envv, authv, ticks, sleeps, published, branch,
                   tick0, gate>>

\* every state but 0 taken for online
online_nonzero(state) == state # JNum(0)

\* line 170
online(state) == state = JNum(1)

\* lines 161-171
Transform ==
    /\ pc = "transform"
    /\ LET inv == restruct_and_separate_current_data(inverter_raw)
           log == restruct_and_separate_current_data(logger_raw)
       IN /\ ~inv.raised /\ ~log.raised
          /\ inverter_attr' = inv.ret
          /\ inverter_raw' = inv.data
          /\ logger_attr' = log.ret
          /\ logger_raw' = log.data
          /\ inverter_state' = Get(inv.data, "deviceState", JNum(0))
    /\ branch' = IF online(inverter_state') THEN "Inverter Online" ELSE branch
    /\ pc' = IF online(inverter_state') THEN "pub_station" ELSE "pub_offline"
    /\ UNCHANGED <<exit_code, globalv, envv, daemonv, token, station_data, authv,
                   ticks, sleeps, fetches, published, tick0, error, gate>>

\* lines 161-162: a dataList entry lacks key, name or value
TransformFail ==
    /\ pc = "transform"
    /\ \/ restruct_and_separate_current_data(inverter_raw).raised
       \/ restruct_and_separate_current_data(logger_raw).raised
    /\ run_raises("restruct_and_separate_current_data")
    /\ UNCHANGED <<globalv, envv, authv, ticks, sleeps, fetches, published,
                   branch, tick0, gate>>

\* lines 173-176
station_messages ==
    IF fetch_station THEN field_messages(config["topic"], "station", station_data)
    ELSE <<>>

\* lines 178-183
inverter_messages ==
    IF fetch_inverter
    THEN field_messages(config["topic"], "inverter", inverter_raw)
         \o attr_messages(config["topic"], "inverter", inverter_attr)
    ELSE <<>>

\* lines 185-190
logger_messages ==
    IF fetch_logger
    THEN field_messages(config["topic"], "logger", logger_raw)
         \o attr_messages(config["topic"], "logger", logger_attr)
    ELSE <<>>

\* what the step at pc hands to mqtt.message, in order
pending ==
    CASE pc = "pub_station" -> station_messages
      [] pc = "pub_inverter" -> inverter_messages
      [] pc = "pub_logger" -> logger_messages
      [] pc = "pub_offline" ->
           offline_messages(config["topic"], fetch_inverter, inverter_state)
      [] OTHER -> <<>>

PublishStation ==
    /\ pc = "pub_station"
    /\ published' = published \o pending
    /\ pc' = "pub_inverter"
    /\ UNCHANGED <<exit_code, globalv, envv, daemonv, runv, authv, ticks, sleeps,
                   fetches, branch, tick0, error, gate>>

PublishInverter ==
    /\ pc = "pub_inverter"
    /\ published' = published \o pending
    /\ pc' = "pub_logger"
    /\ UNCHANGED <<exit_code, globalv, envv, daemonv, runv, authv, ticks, sleeps,
                   fetches, branch, tick0, error, gate>>

PublishLogger ==
    /\ pc = "pub_logger"
    /\ published' = published \o pending
    /\ run_returns
    /\ UNCHANGED <<exit_code, globalv, envv, daemonv, authv, ticks, sleeps,
                   fetches, branch, tick0, error, gate>>

\* lines 192-193
PublishOffline ==
    /\ pc = "pub_offline"
    /\ published' = published \o pending
    /\ branch' = "Inverter Offline/Night"
    /\ run_returns
    /\ UNCHANGED <<exit_code, globalv, envv, daemonv, authv, ticks, sleeps,
                   fetches, tick0, error, gate>>

\* mqtt.message raises at one of the step's messages: those before it
\* were published
PublishFail ==
    /\ pc \in {"pub_station", "pub_inverter", "pub_logger", "pub_offline"}
    /\ \E n \in 1..Len(pending) : published' = published \o SubSeq(pending, 1, n - 1)
    /\ run_raises("mqtt.message")
    /\ UNCHANGED <<globalv, envv, authv, ticks, sleeps, fetches, branch,
                   tick0, gate>>

Next ==
    \/ MainSingle \/ MainDaemon \/ MainHelp
    \/ TickLoad \/ TickLoadError \/ TickGate \/ TickGateError \/ Sleep
    \/ GetTokenCached \/ GetTokenNew \/ GetTokenFail
    \/ RunNoToken \/ RunNothing
    \/ FetchStation \/ FetchStationFail
    \/ FetchInverter \/ FetchInverterFail
    \/ FetchLogger \/ FetchLoggerFail
    \/ Transform \/ TransformFail
    \/ PublishStation \/ PublishInverter \/ PublishLogger \/ PublishOffline
    \/ PublishFail

Spec == Init /\ [][Next]_vars

(***************************************************************************)
(* The daemon alone, started with -d: a sequential process goes on while   *)
(* it has a step to take, every call (a request, a publish, the sleep)     *)
(* returning or raising.                                                   *)
(***************************************************************************)
InitDaemon ==
    /\ Init
    /\ args.daemon /\ ~args.single
    /\ api \in ApiAccount
    /\ api.expires_in \in {<<>>, <<900>>}

NextDaemon ==
    \/ MainDaemon
    \/ TickLoad \/ TickLoadError \/ TickGate \/ TickGateError \/ Sleep
    \/ GetTokenCached \/ GetTokenNew \/ GetTokenFail
    \/ RunNoToken \/ RunNothing
    \/ FetchStation \/ FetchStationFail
    \/ FetchInverter \/ FetchInverterFail
    \/ FetchLogger \/ FetchLoggerFail
    \/ Transform \/ TransformFail
    \/ PublishStation \/ PublishInverter \/ PublishLogger \/ PublishOffline
    \/ PublishFail

SpecDaemon == InitDaemon /\ [][NextDaemon]_vars /\ WF_vars(NextDaemon)

(***************************************************************************)
(* is_sun_active called on its own, on inputs drawn from GateInputs.       *)
(***************************************************************************)
InitGate ==
    /\ pc = "is_sun_active"
    /\ exit_code = -1
    /\ cached_token = None
    /\ token_expiry = 0
    /\ now = 0
    /\ api = [station |-> EmptyDict, inverter |-> EmptyDict, logger |-> EmptyDict,
              expires_in |-> <<>>, blank_token |-> FALSE]
    /\ args = [single |-> FALSE, daemon |-> TRUE, interval |-> IntLike(DefaultInterval)]
    /\ issued = 0
    /\ interval = DefaultInterval
    /\ config = EmptyDict
    /\ sun_active = FALSE
    /\ FreshLocals
    /\ ticks = 0
    /\ sleeps = 0
    /\ auth_requests = 0
    /\ auth_reply = NoReply
    /\ fetches = <<>>
    /\ published = <<>>
    /\ token_src = "none"
    /\ token_account = None
    /\ branch = "none"
    /\ error = "none"
    /\ tick0 = [cached_token |-> None, token_expiry |-> 0]
    /\ gate \in GateInputs

\* lines 195-221
IsSunActiveCall ==
    /\ pc = "is_sun_active"
    /\ sun_active' =
         is_sun_active(gate.cfg, gate.now_local, gate.sunrise_local, gate.sunset_local)
    /\ pc' = "returned"
    /\ UNCHANGED <<exit_code, globalv, envv, interval, config, runv, authv, histv,
                   error, gate>>

NextGate == IsSunActiveCall

SpecGate == InitGate /\ [][NextGate]_vars

(***************************************************************************)
(* restruct_and_separate_current_data called on its own, as in line 161,   *)
(* on responses whose dataList holds up to MaxTriples well-formed entries. *)
(***************************************************************************)
\* names with one space, with several, with none, and one that meets
\* another once its space is replaced
TripleNames == {<<"T", " ", "E">>, <<"T", "_", "E">>, <<" ", "P", " ">>, <<"P">>}
TripleValues == {JNum(12), JNull}
Triples == [key : {1}, name : TripleNames, value : TripleValues]

DataLists == UNION {[1..n -> Triples] : n \in 0..MaxTriples}

\* a response's other fields, and no dataList, a null one or a list
TransformInputs ==
    {head @@ list :
       head \in ResponsesOver({"deviceState", "collectionTime"}),
       list \in {EmptyDict}
                 \cup {("dataList" :> v) : v \in {JNull} \cup {JList(l) : l \in DataLists}}}

InitTransform ==
    /\ pc = "restruct_and_separate_current_data"
    /\ exit_code = -1
    /\ cached_token = None
    /\ token_expiry = 0
    /\ now = 0
    /\ api = [station |-> EmptyDict, inverter |-> EmptyDict, logger |-> EmptyDict,
              expires_in |-> <<>>, blank_token |-> FALSE]
    /\ args = [single |-> FALSE, daemon |-> TRUE, interval |-> IntLike(DefaultInterval)]
    /\ issued = 0
    /\ interval = DefaultInterval
    /\ config = EmptyDict
    /\ sun_active = TRUE
    /\ token = None
    /\ station_data = EmptyDict
    /\ inverter_raw \in TransformInputs
    /\ logger_raw = EmptyDict
    /\ inverter_attr = EmptyDict
    /\ logger_attr = EmptyDict
    /\ inverter_state = JNum(0)
    /\ ticks = 0
    /\ sleeps = 0
    /\ auth_requests = 0
    /\ auth_reply = NoReply
    /\ fetches = <<>>
    /\ published = <<>>
    /\ token_src = "none"
    /\ token_account = None
    /\ branch = "none"
    /\ error = "none"
    /\ tick0 = [cached_token |-> None, token_expiry |-> 0]
    /\ gate = NoGate

\* line 161: inverter_attr = restruct_and_separate_current_data(inverter_raw)
RestructCall ==
    /\ pc = "restruct_and_separate_current_data"
    /\ LET call == restruct_and_separate_current_data(inverter_raw)
       IN /\ ~call.raised
          /\ inverter_attr' = call.ret
          /\ inverter_raw' = call.data
    /\ pc' = "returned"
    /\ UNCHANGED <<exit_code, globalv, envv, daemonv, token, station_data, logger_raw,
                   logger_attr, inverter_state, authv, histv, error, gate>>

NextTransform == RestructCall

SpecTransform == InitTransform /\ [][NextTransform]_vars

(***************************************************************************)
(* Properties.                                                             *)
(***************************************************************************)
\* the positions inside single_run and get_token
RunPcs ==
    {"get_token", "run", "fetch_inverter", "fetch_logger", "transform",
     "pub_station", "pub_inverter", "pub_logger", "pub_offline"}

\* the positions of a tick whose configuration is loaded
TickPcs == RunPcs \cup {"gate", "sleep"}

\* the toggle of a module, missing meaning enabled
Enabled(m) ==
    IF ("fetch_" \o m) \in DOMAIN config THEN config["fetch_" \o m] ELSE TRUE

\* the messages of this tick on <prefix>/m/k
PublishedOn(m, k) ==
    SelectSeq(published, LAMBDA p : p.topic = <<config["topic"], m, k>>)

\* a request to module m was issued in this tick
Fetched(m) == \E n \in 1..Len(fetches) : fetches[n].module = m

\* the inverter answered in this tick, with deviceState 1
InverterOnline ==
    /\ Fetched("inverter")
    /\ "deviceState" \in DOMAIN api.inverter
    /\ api.inverter["deviceState"] = JNum(1)

\* C1: a get_token call made while a non-empty token is cached and
\* now < token_expiry - 300 returns the cached token, issues no
\* authentication request and leaves cached_token and token_expiry as they
\* were.
C1_CacheHit ==
    [][(pc = "get_token" /\ cached_token \notin {None, ""} /\ now < token_expiry - 300)
       => /\ pc' = "run"
          /\ token' = cached_token
          /\ auth_requests' = auth_requests
          /\ issued' = issued
          /\ cached_token' = cached_token
          /\ token_expiry' = token_expiry]_vars

\* a later tick was served from the cache, inside the token's lifetime
C1_Witness ==
    /\ pc = "run"
    /\ ticks >= 2
    /\ token_src = "cache"
    /\ token = cached_token
    /\ token_expiry = 900
    /\ auth_requests = 0

C3_NoCallsWhenAllDisabled ==
    (pc \in RunPcs \cup {"sleep"}
       /\ ~Enabled("station") /\ ~Enabled("inverter") /\ ~Enabled("logger"))
    => (auth_requests = 0 /\ fetches = <<>> /\ published = <<>>)

\* the response fields a module's loop may meet
FieldNames == {KeyOrder[n] : n \in 1..Len(KeyOrder)}

\* C4: in a cycle whose inverter response has deviceState == 1, the topics
\* <prefix>/m/<field> published for an enabled module m, the attributes
\* topic aside, are the top-level fields of m's response that are not null
\* and not among code, msg, requestId, success, dataList, each once and
\* with its raw value; nothing is published for a disabled module.
C4_OnlineFields ==
    (pc = "sleep" /\ InverterOnline)
    => /\ \A m \in Modules, k \in FieldNames :
            PublishedOn(m, k) =
              IF /\ Enabled(m)
                 /\ k \in DOMAIN api[m]
                 /\ k \notin {"code", "msg", "requestId", "success", "dataList"}
                 /\ api[m][k] # JNull
              THEN <<[topic |-> <<config["topic"], m, k>>, payload |-> api[m][k]]>>
              ELSE <<>>
       /\ \A n \in 1..Len(published) :
            /\ published[n].topic[1] = config["topic"]
            /\ published[n].topic[2] \in Modules
            /\ published[n].topic[3] \in FieldNames \cup {"attributes"}
            /\ Enabled(published[n].topic[2])

\* an online cycle with all modules enabled has ended; the station answered
\* with a metadata field, the inverter with a null field
C4_Witness ==
    /\ pc = "sleep"
    /\ InverterOnline
    /\ Enabled("station") /\ Enabled("logger")
    /\ "code" \in DOMAIN api.station
    /\ "generationPower" \in DOMAIN api.station
    /\ api.station["generationPower"] # JNull
    /\ "collectionTime" \in DOMAIN api.inverter
    /\ "dataList" \in DOMAIN api.logger
    /\ Len(PublishedOn("station", "generationPower")) = 1
    /\ Len(PublishedOn("inverter", "deviceState")) = 1

\* the inverter's response of this tick carries no deviceState == 1
\* (a disabled inverter module has the empty response)
InverterNotOnline ==
    \/ ~Enabled("inverter")
    \/ "deviceState" \notin DOMAIN api.inverter
    \/ api.inverter["deviceState"] # JNum(1)

\* C5: in a cycle whose inverter response has no deviceState or one
\* different from 1, only deviceState topics of enabled modules are
\* published: no station topic, no attributes topic, no other field.
C5_OfflineOnlyDeviceState ==
    (pc \in TickPcs \cup {"exited"} /\ InverterNotOnline)
    => \A n \in 1..Len(published) :
         /\ published[n].topic[3] = "deviceState"
         /\ published[n].topic[2] \in {"inverter", "logger"}
         /\ Enabled(published[n].topic[2])

\* an offline cycle has ended and published the inverter's state, though
\* the station and the logger answered with publishable fields
C5_Witness ==
    /\ pc = "sleep"
    /\ branch = "Inverter Offline/Night"
    /\ Enabled("station") /\ Enabled("logger")
    /\ "generationPower" \in DOMAIN api.station
    /\ api.station["generationPower"] # JNull
    /\ "dataList" \in DOMAIN api.logger
    /\ api.logger["dataList"] # JList(<<>>)
    /\ "deviceState" \in DOMAIN api.inverter
    /\ api.inverter["deviceState"] = JNum(3)
    /\ published = <<[topic |-> <<config["topic"], "inverter", "deviceState">>,
                      payload |-> JNum(3)]>>

\* C6: in a cycle whose inverter deviceState is not 1 and whose logger
\* module is enabled, the logger's deviceState is published on
\* <prefix>/logger/deviceState besides <prefix>/inverter/deviceState.
C6_OfflineLoggerState ==
    (pc = "sleep" /\ branch = "Inverter Offline/Night" /\ Enabled("logger")
       /\ Fetched("logger") /\ "deviceState" \in DOMAIN api.logger)
    => PublishedOn("logger", "deviceState") =
         <<[topic |-> <<config["topic"], "logger", "deviceState">>,
            payload |-> api.logger["deviceState"]]>>

\* C7: when the authentication request fails or its response has no
\* access_token, the process ends with exit code 1 in that step: no second
\* authentication request, no fetch, no publish, no sleep and no further
\* tick follow.
C7_AuthFailureFatal ==
    [][/\ (pc = "get_token" /\ auth_requests' = auth_requests + 1
             /\ (auth_reply'.kind # "json" \/ "access_token" \notin DOMAIN auth_reply'.data))
          => /\ pc' = "exited"
             /\ exit_code' = 1
             /\ auth_requests' = 1
             /\ fetches' = <<>>
             /\ published' = <<>>
             /\ sleeps' = sleeps
       /\ pc = "exited"
          => /\ pc' = "exited"
             /\ exit_code' = exit_code
             /\ UNCHANGED <<issued, auth_requests, fetches, published, ticks, sleeps>>]_vars

\* the process has ended on a response without access_token, in a tick
\* after one that went well
C7_Witness ==
    /\ pc = "exited"
    /\ exit_code = 1
    /\ error = "Unable to fetch token"
    /\ auth_reply.kind = "json"
    /\ "access_token" \notin DOMAIN auth_reply.data
    /\ auth_requests = 1
    /\ ticks = 2
    /\ issued = 2

\* the places of a tick an error can come from
TickErrors ==
    {"load_config", "is_sun_active", "Unable to fetch token", "get_station_realtime",
     "get_device_current_data", "restruct_and_separate_current_data", "mqtt.message"}

\* C8: in daemon mode an error raised anywhere in a tick ends the process
\* with exit code 1 in that tick, without the tick's sleep and without a
\* later tick.
C8_CrashStop ==
    [][/\ (pc # "exited" /\ error' \in TickErrors)
          => /\ pc' = "exited"
             /\ exit_code' = 1
             /\ sleeps' = sleeps
             /\ sleeps' = ticks' - 1
       /\ (pc = "exited" /\ error \in TickErrors)
          => /\ pc' = "exited"
             /\ exit_code' = 1
             /\ UNCHANGED <<ticks, sleeps, published, fetches>>]_vars

\* the process has ended in its second tick on a publish that failed after
\* another went through
C8_Witness ==
    /\ pc = "exited"
    /\ exit_code = 1
    /\ error = "mqtt.message"
    /\ ticks = 2
    /\ sleeps = 1
    /\ Len(published) >= 1

\* C9: in every tick the gate is evaluated before the pipeline; a tick
\* whose gate is inactive issues no authentication request, no fetch and no
\* publish and leaves the cached credential as it was; and every tick that
\* ends, its cycle run or not, has slept the interval exactly once before
\* the next tick starts.
C9_GatedTick ==
    /\ pc \in RunPcs => sun_active
    /\ (pc = "sleep" /\ ~sun_active)
       => /\ auth_requests = 0
          /\ fetches = <<>>
          /\ published = <<>>
          /\ cached_token = tick0.cached_token
          /\ token_expiry = tick0.token_expiry
    /\ pc = "load" => sleeps = ticks
    /\ pc \in TickPcs => sleeps = ticks - 1
    /\ pc \in TickPcs \cup {"load"} => now = sleeps * args.interval.n

\* the second tick found the gate inactive and is about to sleep, the
\* credential of the first tick still cached
C9_Witness ==
    /\ pc = "sleep"
    /\ ~sun_active
    /\ ticks = 2
    /\ sleeps = 1
    /\ cached_token \notin {None, ""}
    /\ now = args.interval.n

\* C10: is_sun_active returns true for every now when latitude and
\* longitude are both 0.0, missing coordinates counting as 0.0; for other
\* coordinates it returns true exactly when
\* sunrise - margin <= now <= sunset + margin, both ends included, the
\* margin being 30 minutes when not configured.
C10_GateDecision ==
    pc = "returned"
    => LET lat == IF "latitude" \in DOMAIN gate.cfg THEN gate.cfg["latitude"] ELSE 0
           lon == IF "longitude" \in DOMAIN gate.cfg THEN gate.cfg["longitude"] ELSE 0
           minutes == IF "sunmarginminutes" \in DOMAIN gate.cfg
                      THEN gate.cfg["sunmarginminutes"] ELSE 30
       IN IF lat = 0 /\ lon = 0 THEN sun_active
          ELSE sun_active <=> /\ gate.sunrise_local - 60 * minutes <= gate.now_local
                              /\ gate.now_local <= gate.sunset_local + 60 * minutes

\* a located installation with no margin configured was found active at
\* the very instant sunrise - 30 minutes
C10_Witness ==
    /\ pc = "returned"
    /\ sun_active
    /\ "sunmarginminutes" \notin DOMAIN gate.cfg
    /\ "latitude" \in DOMAIN gate.cfg /\ gate.cfg["latitude"] # 0
    /\ gate.now_local = gate.sunrise_local - 1800

\* C11: started with -s, the process runs the pipeline once on the loaded
\* configuration (one token obtained, the cycle's branch taken) and, when
\* nothing fails, ends with exit code 0.
C11_SingleRunExitZero ==
    (pc = "exited" /\ args.single)
    => /\ exit_code = 0
       /\ token_src \in {"cache", "auth"}
       /\ branch # "none"

\* the attribute map of a served response: each dataList entry's name,
\* spaces turned to underscores, mapped to the entry's value
AttributeMap(resp) ==
    IF "dataList" \notin DOMAIN resp THEN <<>>
    ELSE LET list == resp["dataList"].list
             sanitized(n) == [i \in 1..Len(list[n].name) |->
                                IF list[n].name[i] = " " THEN "_" ELSE list[n].name[i]]
         IN [name \in {sanitized(n) : n \in 1..Len(list)} |->
               list[CHOOSE n \in 1..Len(list) : sanitized(n) = name].value]

\* C12: at the end of an online cycle, each enabled module among inverter
\* and logger has exactly one message on <prefix>/m/attributes if its
\* attribute map is non-empty and none if it is empty, the payload being the
\* whole map serialized as one JSON object; a disabled module has none, and
\* the station never has one.
C12_Attributes ==
    (pc = "sleep" /\ InverterOnline)
    => /\ \A m \in {"inverter", "logger"} :
            PublishedOn(m, "attributes") =
              IF Enabled(m) /\ AttributeMap(api[m]) # <<>>
              THEN <<[topic |-> <<config["topic"], m, "attributes">>,
                      payload |-> [json |-> AttributeMap(api[m])]]>>
              ELSE <<>>
       /\ PublishedOn("station", "attributes") = <<>>

\* an online cycle has ended in which the logger served one entry named
\* "T E" and the inverter an empty dataList: T_E is published for the
\* logger, nothing for the inverter
C12_Witness ==
    /\ pc = "sleep"
    /\ InverterOnline
    /\ Enabled("station") /\ Enabled("logger")
    /\ "dataList" \in DOMAIN api.inverter
    /\ api.inverter["dataList"] = JList(<<>>)
    /\ "dataList" \in DOMAIN api.logger
    /\ api.logger["dataList"] = JList(<<Triple>>)
    /\ PublishedOn("inverter", "attributes") = <<>>
    /\ PublishedOn("logger", "attributes") =
         <<[topic |-> <<"pv", "logger", "attributes">>,
            payload |-> [json |-> (<<"T", "_", "E">> :> JNum(12))]]>>

\* the answer to a token request is well formed: a JSON object with
\* access_token, and with an expires_in that is a number or with none
WellFormedReply(reply) ==
    /\ reply.kind = "json"
    /\ "access_token" \in DOMAIN reply.data
    /\ "expires_in" \in DOMAIN reply.data => reply.data["expires_in"].ok

\* C13: a step that changes cached_token or token_expiry and leaves the
\* process running installs both from the one well-formed response received
\* in that step; a failed or malformed response (one whose expires_in is no
\* number included) ends the process in that step, so that no running
\* state pairs a new token with an old expiry or an old token with a new
\* expiry.
C13_CredentialAtomic ==
    [][/\ (pc' # "exited" /\ <<cached_token, token_expiry>>' # <<cached_token, token_expiry>>)
          => /\ auth_requests' = auth_requests + 1
             /\ WellFormedReply(auth_reply')
             /\ cached_token' = auth_reply'.data["access_token"]
             /\ token_expiry' =
                  now + (IF "expires_in" \in DOMAIN auth_reply'.data
                         THEN auth_reply'.data["expires_in"].n ELSE 5183999)
       /\ (auth_requests' = auth_requests + 1 /\ ~WellFormedReply(auth_reply'))
          => pc' = "exited" /\ exit_code' = 1
       /\ pc = "exited" => pc' = "exited"]_vars

\* a response with a token and an expires_in that is no number arrived
\* while an older credential was cached: the new token sits beside the old
\* expiry, in a process that has ended
C13_Witness ==
    /\ pc = "exited"
    /\ exit_code = 1
    /\ auth_reply.kind = "json"
    /\ "access_token" \in DOMAIN auth_reply.data
    /\ "expires_in" \in DOMAIN auth_reply.data
    /\ ~auth_reply.data["expires_in"].ok
    /\ tick0.cached_token \notin {None, ""}
    /\ cached_token = auth_reply.data["access_token"]
    /\ cached_token # tick0.cached_token
    /\ token_expiry = tick0.token_expiry

\* C14: when get_token has returned an empty or null token, single_run
\* returns in its next step without a fetch or a publish and without an
\* error, the daemon sleeps and starts the next tick; and a get_token call
\* that finds an empty or null token cached never answers from the cache
\* but issues an authentication request.
C14_EmptyTokenSkips ==
    [][/\ (pc = "run" /\ token \in {None, ""})
          => /\ pc' = "sleep"
             /\ fetches' = <<>>
             /\ published' = <<>>
             /\ exit_code' = -1
             /\ error' = "none"
       /\ (pc = "sleep" /\ branch = "No valid token")
          => /\ pc' = "load"
             /\ sleeps' = sleeps + 1
             /\ exit_code' = -1
       /\ (pc = "get_token" /\ cached_token \in {None, ""})
          => /\ auth_requests' = auth_requests + 1
             /\ token_src' # "cache"]_vars

\* the tick after one that was handed an empty token, well inside that
\* token's lifetime, has authenticated again and holds a usable token
C14_Witness ==
    /\ pc = "run"
    /\ ticks = 2
    /\ sleeps = 1
    /\ tick0.cached_token = ""
    /\ now < tick0.token_expiry - 300
    /\ auth_requests = 1
    /\ token_src = "auth"
    /\ token = "tok2"

\* a name with every space turned into an underscore
Underscored(name) == [i \in 1..Len(name) |-> IF name[i] = " " THEN "_" ELSE name[i]]

\* C15: called on a response without dataList or with an empty one (an
\* empty list or null), restruct_and_separate_current_data returns the
\* empty mapping and leaves the response as it was; called on a response
\* with entries, it returns the mapping whose keys are the entries' names
\* with spaces replaced by underscores, each mapped to its entry's value
\* (the last entry's, should two names meet), and leaves the response
\* without dataList and with every other field as it was.
C15_Transformer ==
    [][pc = "restruct_and_separate_current_data"
       => IF \/ "dataList" \notin DOMAIN inverter_raw
             \/ inverter_raw["dataList"] \in {JNull, [list |-> <<>>]}
          THEN /\ inverter_attr' = <<>>
               /\ inverter_raw' = inverter_raw
          ELSE LET list == inverter_raw["dataList"].list
               IN /\ DOMAIN inverter_attr' =
                       {Underscored(list[n].name) : n \in 1..Len(list)}
                  /\ \A n \in 1..Len(list) :
                       (\A m \in (n + 1)..Len(list) :
                          Underscored(list[m].name) # Underscored(list[n].name))
                       => inverter_attr'[Underscored(list[n].name)] = list[n].value
                  /\ DOMAIN inverter_raw' = DOMAIN inverter_raw \ {"dataList"}
                  /\ \A k \in DOMAIN inverter_raw' : inverter_raw'[k] = inverter_raw[k]]_vars

\* the function has returned the map of two entries, one of them with two
\* spaces in its name and a null value, and the response has kept its
\* other fields
C15_Witness ==
    /\ pc = "returned"
    /\ inverter_attr = (<<"T", "_", "E">> :> JNum(12)) @@ (<<"_", "P", "_">> :> JNull)
    /\ inverter_raw = [deviceState |-> JNum(1), collectionTime |-> JNull]

\* the modules requested in this tick, in the order of the requests
FetchOrder == [n \in 1..Len(fetches) |-> fetches[n].module]

\* the errors of the fetch layer
FetchErrors == {"get_station_realtime", "get_device_current_data"}

\* C16: the requests of a cycle go out in the order station, inverter,
\* logger, and nothing is published before every enabled module has been
\* requested and has answered; a cycle in which a fetch failed has
\* published nothing, and the process has ended with exit code 1.
C16_NoPartialCycle ==
    /\ FetchOrder = SelectSeq(<<"station", "inverter", "logger">>, Fetched)
    /\ published # <<>>
       => /\ \A m \in Modules : Enabled(m) => Fetched(m)
          /\ pc \notin {"run", "fetch_inverter", "fetch_logger", "transform"}
          /\ error \notin FetchErrors
    /\ error \in FetchErrors
       => /\ published = <<>>
          /\ pc = "exited"
          /\ exit_code = 1

\* the logger's request failed after the station and an online inverter
\* had answered with publishable data: nothing was published and the
\* process has ended
C16_Witness ==
    /\ pc = "exited"
    /\ exit_code = 1
    /\ error = "get_device_current_data"
    /\ FetchOrder = <<"station", "inverter", "logger">>
    /\ "generationPower" \in DOMAIN api.station
    /\ api.station["generationPower"] = JNum(5)
    /\ "deviceState" \in DOMAIN api.inverter
    /\ api.inverter["deviceState"] = JNum(1)
    /\ published = <<>>
    /\ ticks = 2

\* the number of requests to module m in this tick
FetchCount(m) == Cardinality({n \in 1..Len(fetches) : fetches[n].module = m})

\* C17: a module is requested at most once in a cycle and never when it is
\* disabled, every request carries the token the cycle obtained, and a
\* cycle that obtained a token with at least one module enabled, a missing
\* toggle meaning enabled, has requested each enabled module exactly once
\* when its fetches are done.
C17_OneFetchPerModule ==
    /\ \A m \in Modules : FetchCount(m) <= (IF Enabled(m) THEN 1 ELSE 0)
    /\ \A n \in 1..Len(fetches) :
         /\ fetches[n].token = cached_token
         /\ fetches[n].token \notin {None, ""}
    /\ pc \in RunPcs \ {"get_token"} => token = cached_token
    /\ (/\ pc \in {"transform", "pub_station", "pub_inverter", "pub_logger",
                   "pub_offline", "sleep"}
        /\ sun_active
        /\ cached_token \notin {None, ""}
        /\ \E m \in Modules : Enabled(m))
       => \A m \in Modules : FetchCount(m) = (IF Enabled(m) THEN 1 ELSE 0)

\* a later cycle, served its token from the cache and run on a
\* configuration without toggles, has ended with one request per module
C17_Witness ==
    /\ pc = "sleep"
    /\ sun_active
    /\ ticks = 2
    /\ token_src = "cache"
    /\ ToggleKeys \cap DOMAIN config = {}
    /\ fetches = <<[module |-> "station", token |-> "tok1"],
                   [module |-> "inverter", token |-> "tok1"],
                   [module |-> "logger", token |-> "tok1"]>>

\* C18: in daemon mode a tick begins only at the head of the loop, after
\* the tick before it has slept; the process ends only with exit code 1
\* and an error logged; and every tick that begins is followed by another
\* tick unless an error ends the process.
C18_DaemonLiveness ==
    /\ [][ticks' # ticks
          => /\ pc = "load"
             /\ ticks' = ticks + 1
             /\ sleeps = ticks]_vars
    /\ [](pc = "exited" => (exit_code = 1 /\ error # "none"))
    /\ \A k \in 0..(MaxTicks - 1) :
         (pc # "exited" /\ ticks = k) ~> (ticks = k + 1 \/ pc = "exited")

\* the last tick of the run has begun, each tick before it having slept
\* once, and no error has occurred
C18_Witness ==
    /\ pc = "gate"
    /\ ticks = MaxTicks
    /\ sleeps = MaxTicks - 1
    /\ now = (MaxTicks - 1) * interval
    /\ exit_code = -1
    /\ error = "none"

\* C19: a tick whose configuration disables the inverter module never
\* enters the online branch and publishes nothing; its cycle, when it has
\* a token and another module enabled, ends in the offline branch with
\* the enabled station and logger requested; and a message for the station
\* or the logger is only ever published in a cycle whose inverter module is
\* enabled and has answered with deviceState 1.
C19_InverterDisabled ==
    /\ (pc \in TickPcs \cup {"exited"} /\ ~Enabled("inverter"))
       => /\ published = <<>>
          /\ pc \notin {"pub_station", "pub_inverter", "pub_logger"}
          /\ branch # "Inverter Online"
    /\ (/\ pc = "sleep" /\ sun_active /\ cached_token \notin {None, ""}
        /\ ~Enabled("inverter") /\ (Enabled("station") \/ Enabled("logger")))
       => /\ branch = "Inverter Offline/Night"
          /\ \A m \in {"station", "logger"} : Enabled(m) <=> Fetched(m)
          /\ ~Fetched("inverter")
    /\ \A n \in 1..Len(published) :
         published[n].topic[2] \in {"station", "logger"}
         => Enabled("inverter") /\ InverterOnline

\* a cycle with the inverter disabled has ended: the station and the logger
\* were requested and had answered with publishable data, the logger with
\* deviceState 1, and nothing was published
C19_Witness ==
    /\ pc = "sleep"
    /\ config = [fetch_station |-> TRUE, fetch_inverter |-> FALSE,
                 fetch_logger |-> TRUE, topic |-> "pv", username |-> "a"]
    /\ FetchOrder = <<"station", "logger">>
    /\ "generationPower" \in DOMAIN api.station
    /\ api.station["generationPower"] = JNum(5)
    /\ "deviceState" \in DOMAIN api.logger
    /\ api.logger["deviceState"] = JNum(1)
    /\ "dataList" \in DOMAIN api.logger
    /\ api.logger["dataList"] = JList(<<Triple>>)
    /\ branch = "Inverter Offline/Night"
    /\ published = <<>>

\* C20: a get_token call made while a non-empty token is cached and
\* now < token_expiry - 300 returns that token and issues no request even
\* when the configuration just loaded names another account than the one
\* the token was obtained with; the new account is only used by the
\* request issued once now >= token_expiry - 300.
C20_CacheNotKeyed ==
    [][/\ (/\ pc = "get_token"
           /\ cached_token \notin {None, ""}
           /\ now < token_expiry - 300
           /\ config["username"] # token_account)
          => /\ pc' = "run"
             /\ token' = cached_token
             /\ auth_requests' = auth_requests
             /\ issued' = issued
             /\ cached_token' = cached_token
             /\ token_expiry' = token_expiry
             /\ token_account' = token_account
       /\ (pc = "get_token" /\ now >= token_expiry - 300)
          => /\ auth_requests' = auth_requests + 1
             /\ pc' = "run" => token_account' = config["username"]]_vars

\* the third tick, run on a configuration that names account b, was
\* served the token account a obtained in the first tick
C20_Witness ==
    /\ pc = "run"
    /\ ticks = 3
    /\ config["username"] = "b"
    /\ token_account = "a"
    /\ token_src = "cache"
    /\ token = "tok1"
    /\ auth_requests = 0
    /\ now < token_expiry - 300

====
